---- MODULE Spec2Model ----
(***************************************************************************)
(* The stats collector: the three tables nodes, firmware_files and         *)
(* stats_entries, the SQLAlchemy session that reads and writes them, the   *)
(* DataInterface operations and the /fw/<name> endpoint built on them, the *)
(* start-up of the server with update_schema, ingest on concurrent         *)
(* requests, and the scheduled archive runs.                               *)
(*                                                                         *)
(* Text that the code inspects character by character (firmware file       *)
(* names, version tags) is a sequence of one-character strings; text that  *)
(* it only measures, concatenates or compares (node names, addresses,      *)
(* blobs) is a string.  An Optional value is <<>> (None) or <<v>>.         *)
(***************************************************************************)
EXTENDS Integers, Sequences, FiniteSets, TLC

VARIABLES nodes, firmware_files, stats_entries, lastOp, requests, schema,
          phase, sched

vars ==
    <<nodes, firmware_files, stats_entries, lastOp, requests, schema, phase,
      sched>>

(* ------------------------------ bounds --------------------------------- *)

\* Telemetry rows the store may hold before ingest is no longer offered.
MaxStats == 2

\* Entries of one firmware archive.
MaxEntries == 2

\* Telemetry rows of a store written under the earlier layout.
MaxLegacy == 2

\* Times the interval of the scheduled job elapses.
MaxTicks == 2

(* ------------------------- program constants --------------------------- *)

DB_STR_LEN == 256

\* The {32} of FW_FILE_RE.
HashLen == 32

\* max_instances of the scheduled job.
MaxInstances == 1

(* ------------------------------ values --------------------------------- *)

None == <<>>

Some(x) == <<x>>

DigitChars == {"0", "1", "2", "3", "4", "5", "6", "7", "8", "9"}

HexChars ==
    DigitChars \cup {"a", "b", "c", "d", "e", "f", "A", "B", "C", "D", "E", "F"}

\* \w of an ASCII name.
WordChars ==
    DigitChars \cup {"_"} \cup
    {"a", "b", "c", "d", "e", "f", "g", "h", "i", "j", "k", "l", "m",
     "n", "o", "p", "q", "r", "s", "t", "u", "v", "w", "x", "y", "z",
     "A", "B", "C", "D", "E", "F", "G", "H", "I", "J", "K", "L", "M",
     "N", "O", "P", "Q", "R", "S", "T", "U", "V", "W", "X", "Y", "Z"}

DigitChar(d) ==
    <<"0", "1", "2", "3", "4", "5", "6", "7", "8", "9">>[d + 1]

RECURSIVE StrNat(_)
StrNat(n) ==
    IF n < 10 THEN DigitChar(n) ELSE StrNat(n \div 10) \o DigitChar(n % 10)

\* str(int): the decimal string.
str(n) ==
    IF n < 0 THEN "-" \o StrNat(-n) ELSE StrNat(n)

\* s * n, by halving n.
RECURSIVE Repeat(_, _)
Repeat(s, n) ==
    IF n = 0 THEN ""
    ELSE IF n % 2 = 0
    THEN LET half == Repeat(s, n \div 2) IN half \o half
    ELSE s \o Repeat(s, n - 1)

(* --------------------------- FW_FILE_RE -------------------------------- *)

\* The first position at or after i whose character is not in cls.
RECURSIVE SkipWhile(_, _, _)
SkipWhile(s, i, cls) ==
    IF i <= Len(s) /\ s[i] \in cls THEN SkipWhile(s, i + 1, cls) ELSE i

\* (\d+\.)*\d+ matched against the whole of v.
IsLibVersion(v) ==
    /\ Len(v) > 0
    /\ \A i \in 1..Len(v) : v[i] \in DigitChars \cup {"."}
    /\ v[1] # "."
    /\ v[Len(v)] # "."
    /\ \A i \in 1..(Len(v) - 1) : ~(v[i] = "." /\ v[i + 1] = ".")

\* FW_FILE_RE.match(fname): None, or the groups 1, 2 and 4.  Neither \w nor
\* [\d.] holds "-", so each group runs to the first "-" after it; the match
\* is anchored at the start only, so text may follow ".bin".
FW_FILE_RE(fname) ==
    LET e1 == SkipWhile(fname, 1, WordChars)
        e2 == SkipWhile(fname, e1 + 1, DigitChars \cup {"."})
        h0 == e2 + 1
        hN == e2 + HashLen
    IN  IF /\ e1 > 1
           /\ e1 <= Len(fname)
           /\ fname[e1] = "-"
           /\ IsLibVersion(SubSeq(fname, e1 + 1, e2 - 1))
           /\ e2 <= Len(fname)
           /\ fname[e2] = "-"
           /\ Len(fname) >= hN + 4
           /\ \A i \in h0..hN : fname[i] \in HexChars
           /\ SubSeq(fname, hN + 1, hN + 4) = <<".", "b", "i", "n">>
        THEN Some([g1 |-> SubSeq(fname, 1, e1 - 1),
                   g2 |-> SubSeq(fname, e1 + 1, e2 - 1),
                   g4 |-> SubSeq(fname, h0, hN)])
        ELSE None

(* ------------------------------ tables --------------------------------- *)

\* The three tables of Base.metadata, each a set of rows.
Tables == {"nodes", "firmware_files", "stats_entries"}

\* PrimaryKey under the earlier layout of stats_entries, keyed by timestamp.
PrimaryKeyTimestamp(table, row) ==
    CASE table = "nodes" -> row.id
      [] table = "firmware_files" -> row.name
      [] table = "stats_entries" -> row.timestamp

\* The primary-key column of each table (primary_key=True).
PrimaryKey(table, row) ==
    CASE table = "nodes" -> row.id
      [] table = "firmware_files" -> row.name
      [] table = "stats_entries" -> row.entry_id

\* entry_id of the next inserted telemetry row: an INTEGER PRIMARY KEY left
\* unset takes one more than the largest key in the table.
NextEntryId(rows) ==
    IF rows = {} THEN 1
    ELSE (CHOOSE m \in {r.entry_id : r \in rows} :
              \A r \in rows : r.entry_id <= m) + 1

\* The store as one record of tables.
DB ==
    [nodes |-> nodes, firmware_files |-> firmware_files,
     stats_entries |-> stats_entries]

(* ------------------------------ Session -------------------------------- *)
(* A session is [db, new, raised]: db is the store as the open transaction *)
(* sees it, new the objects added and not yet flushed (in order), raised   *)
(* the exception that ended the unit of work, if any.                      *)

\* Session(self._engine)
Session(db) ==
    [db |-> db, new |-> <<>>, raised |-> None]

\* session.add(obj)
SessionAdd(sess, table, obj) ==
    [sess EXCEPT !.new = Append(@, [table |-> table, row |-> obj])]

\* The INSERT of one pending object; the store rejects a second row with
\* the primary key of an existing one.
InsertRow(sess, table, obj) ==
    LET row == IF table = "stats_entries"
               THEN [obj EXCEPT !.entry_id = NextEntryId(sess.db.stats_entries)]
               ELSE obj
    IN  IF \E r \in sess.db[table] :
               PrimaryKey(table, r) = PrimaryKey(table, row)
        THEN [sess EXCEPT !.raised = Some("IntegrityError")]
        ELSE [sess EXCEPT !.db[table] = @ \cup {row}]

\* session.flush(): the pending objects are inserted in the order added.
RECURSIVE Flush(_)
Flush(sess) ==
    IF sess.raised # None \/ sess.new = <<>> THEN sess
    ELSE LET o == Head(sess.new)
         IN  Flush(InsertRow([sess EXCEPT !.new = Tail(@)], o.table, o.row))

\* Autoflush of a session made with autoflush=False: a query sees the rows
\* of the store only, not the objects added since.
AutoflushOff(sess) ==
    sess

\* The autoflush a query performs before its SELECT (autoflush=True is the
\* Session default).
Autoflush(sess) ==
    Flush(sess)

\* QueryOneOrNone had the filter named a column no key is stored under:
\* nothing is ever found.
QueryFindsNothing(sess, table, key) ==
    [sess |-> Autoflush(sess), obj |-> None]

\* session.query(T).filter(T.<pk> == key).one_or_none(): the session after
\* the autoflush, and the object found (None or Some).
QueryOneOrNone(sess, table, key) ==
    LET s == Autoflush(sess)
        found == {r \in s.db[table] : PrimaryKey(table, r) = key}
    IN  [sess |-> s,
         obj |-> IF s.raised # None \/ found = {} THEN None
                 ELSE Some(CHOOSE r \in found : TRUE)]

\* SessionAssign had an assignment reached persistent objects only: one
\* made to an object added and not yet flushed is lost.
SessionAssignPersistentOnly(sess, table, old, new) ==
    IF old \in sess.db[table]
    THEN [sess EXCEPT !.db[table] = (@ \ {old}) \cup {new}]
    ELSE sess

\* An attribute assignment on a persistent or pending object: old is the
\* object as queried or added, new the object after the assignments.
SessionAssign(sess, table, old, new) ==
    IF old \in sess.db[table]
    THEN [sess EXCEPT !.db[table] = (@ \ {old}) \cup {new}]
    ELSE [sess EXCEPT !.new =
              [i \in DOMAIN @ |->
                  IF @[i] = [table |-> table, row |-> old]
                  THEN [table |-> table, row |-> new] ELSE @[i]]]

\* SessionExit had every statement already sent to the store been committed
\* as it was sent: what was flushed before an exception stays.
SessionExitCommits(db, sess) ==
    [db |-> sess.db, raised |-> sess.raised]

\* Leaving "with Session(...)" : the transaction is committed only by an
\* explicit session.commit(); an exception on the way, in the flush of the
\* commit included, rolls everything back.  The result is the store after
\* the call and the exception the call raises.
SessionExit(db, sess) ==
    [db |-> IF sess.raised = None THEN sess.db ELSE db, raised |-> sess.raised]

\* session.commit() as the last statement of the with block.
Commit(db, sess) ==
    SessionExit(db, Flush(sess))

(* ------------------------------ entities ------------------------------- *)

\* MonitorNode(id=..., name=...): last_ip is left unset.
MonitorNode(id, name) ==
    [id |-> id, name |-> Some(name), last_ip |-> None]

\* MonitorNode.as_dict
NodeAsDict(n) ==
    [id |-> n.id, name |-> n.name, last_ip |-> n.last_ip]

\* version had the hash been left out of the tag.
versionWithoutHash(fw) ==
    fw.name \o <<"-">> \o fw.lib_version

\* FirmwareFile.version
version(fw) ==
    fw.name \o <<"-">> \o fw.lib_version \o <<"-">> \o fw.hash

\* FirmwareFile.from_file: [raised, obj].
from_file(fname, fdata) ==
    LET finfo == FW_FILE_RE(fname)
    IN  IF finfo = None
        THEN [raised |-> Some("AttributeError"), obj |-> None]
        ELSE [raised |-> None,
              obj |-> Some([name |-> finfo[1].g1,
                            lib_version |-> finfo[1].g2,
                            hash |-> finfo[1].g4,
                            firmware |-> fdata])]

\* FirmwareFile.as_dict
FirmwareAsDict(fw) ==
    [name |-> fw.name, lib_version |-> fw.lib_version, hash |-> fw.hash,
     version |-> version(fw), firmware |-> fw.firmware]

\* The keys StatsInstance.from_dict requires, in the order it tests them.
RequiredKeys ==
    <<"id", "timestamp", "high_temp", "low_temp", "air_temp", "humidity",
      "digital_1", "digital_2", "analog">>

Keys == {RequiredKeys[i] : i \in DOMAIN RequiredKeys}

\* The first required key the payload lacks (0 when it has them all).
FirstMissing(stats) ==
    IF Keys \subseteq DOMAIN stats THEN 0
    ELSE CHOOSE i \in DOMAIN RequiredKeys :
             /\ RequiredKeys[i] \notin DOMAIN stats
             /\ \A j \in 1..(i - 1) : RequiredKeys[j] \in DOMAIN stats

\* A timestamp is [typed, wall, utcoffset]: typed tells a datetime object
\* from an ISO-8601 string, wall is the wall-clock minute, utcoffset the
\* zone's minutes east of UTC.
\* fromisoformat(ts).astimezone(timezone.utc) of a string; a datetime is
\* taken as it is.
ParseTimestamp(ts) ==
    IF ts.typed THEN ts
    ELSE [typed |-> TRUE, wall |-> ts.wall - ts.utcoffset, utcoffset |-> 0]

\* from_dict had the last test of the chain ("analog") been left out and
\* the value read with a default.
from_dict_unchecked_analog(stats) ==
    IF FirstMissing(stats) \notin {0, Len(RequiredKeys)}
    THEN [raised |-> Some("AttributeError"), obj |-> None]
    ELSE [raised |-> None,
          obj |-> Some([entry_id |-> 0,
                        id |-> stats["id"],
                        timestamp |-> ParseTimestamp(stats["timestamp"]),
                        high_temp |-> stats["high_temp"],
                        low_temp |-> stats["low_temp"],
                        air_temp |-> stats["air_temp"],
                        humidity |-> stats["humidity"],
                        digital_1 |-> stats["digital_1"],
                        digital_2 |-> stats["digital_2"],
                        analog |-> IF "analog" \in DOMAIN stats
                                   THEN stats["analog"] ELSE 0])]

\* StatsInstance.from_dict: [raised, obj]; entry_id is left to the store.
from_dict(stats) ==
    IF FirstMissing(stats) # 0
    THEN [raised |-> Some("AttributeError"), obj |-> None]
    ELSE [raised |-> None,
          obj |-> Some([entry_id |-> 0,
                        id |-> stats["id"],
                        timestamp |-> ParseTimestamp(stats["timestamp"]),
                        high_temp |-> stats["high_temp"],
                        low_temp |-> stats["low_temp"],
                        air_temp |-> stats["air_temp"],
                        humidity |-> stats["humidity"],
                        digital_1 |-> stats["digital_1"],
                        digital_2 |-> stats["digital_2"],
                        analog |-> stats["analog"]])]

(* ---------------------------- DataInterface ---------------------------- *)
(* Each operation takes the store and its arguments and gives              *)
(* [db, raised, ret]: the store after the call, the exception raised (or   *)
(* None) and the value returned (or None).                                 *)

\* ingest had the node been looked up, added and committed before the
\* payload was validated.
ingest_validates_last(db, stats, ip) ==
    IF "id" \notin DOMAIN stats
    THEN [db |-> db, raised |-> Some("KeyError"), ret |-> None]
    ELSE
    LET q == QueryOneOrNone(Session(db), "nodes", stats["id"])
        created == MonitorNode(stats["id"], str(stats["id"]))
        s1 == IF q.obj = None
              THEN SessionAdd(q.sess, "nodes", created)
              ELSE q.sess
        nodeInfo == IF q.obj = None THEN created ELSE q.obj[1]
        s2 == IF ip # None
              THEN SessionAssign(s1, "nodes", nodeInfo,
                                 [nodeInfo EXCEPT !.last_ip = ip])
              ELSE s1
        upserted == Commit(db, s2)
        instance == from_dict(stats)
    IN  IF instance.raised # None
        THEN [db |-> upserted.db, raised |-> instance.raised, ret |-> None]
        ELSE LET out == Commit(upserted.db,
                               SessionAdd(Session(upserted.db),
                                          "stats_entries", instance.obj[1]))
             IN  [db |-> out.db, raised |-> out.raised, ret |-> None]

\* ingest had the address been assigned without the test of line 159: a
\* call without an address clears the one stored.
ingest_assigns_always(db, stats, ip) ==
    LET instance == from_dict(stats)
    IN  IF instance.raised # None
        THEN [db |-> db, raised |-> instance.raised, ret |-> None]
        ELSE
        LET q == QueryOneOrNone(Session(db), "nodes", stats["id"])
            created == MonitorNode(stats["id"], str(stats["id"]))
            s1 == IF q.obj = None
                  THEN SessionAdd(q.sess, "nodes", created)
                  ELSE q.sess
            nodeInfo == IF q.obj = None THEN created ELSE q.obj[1]
            s2 == SessionAssign(s1, "nodes", nodeInfo,
                                [nodeInfo EXCEPT !.last_ip = ip])
            s3 == SessionAdd(s2, "stats_entries", instance.obj[1])
            out == Commit(db, s3)
        IN  [db |-> out.db, raised |-> out.raised, ret |-> None]

\* DataInterface.ingest
ingest(db, stats, ip) ==
    LET instance == from_dict(stats)
    IN  IF instance.raised # None
        THEN [db |-> db, raised |-> instance.raised, ret |-> None]
        ELSE
        LET q == QueryOneOrNone(Session(db), "nodes", stats["id"])
            created == MonitorNode(stats["id"], str(stats["id"]))
            s1 == IF q.obj = None
                  THEN SessionAdd(q.sess, "nodes", created)
                  ELSE q.sess
            nodeInfo == IF q.obj = None THEN created ELSE q.obj[1]
            s2 == IF ip # None
                  THEN SessionAssign(s1, "nodes", nodeInfo,
                                     [nodeInfo EXCEPT !.last_ip = ip])
                  ELSE s1
            s3 == SessionAdd(s2, "stats_entries", instance.obj[1])
            out == Commit(db, s3)
        IN  [db |-> out.db, raised |-> out.raised, ret |-> None]

\* archive.namelist()
namelist(archive) ==
    [i \in DOMAIN archive |-> archive[i].fname]

\* archive.open(fname).read(): a ZipFile resolves a name to the last member
\* written under it.
ArchiveRead(archive, fname) ==
    LET at == {i \in DOMAIN archive : archive[i].fname = fname}
    IN  archive[CHOOSE i \in at : \A j \in at : j <= i].data

\* AddFirmwareEntry had the comparison of the versions been left out: a
\* stored build is rewritten by every entry of its name.
AddFirmwareEntryAlways(sess, archive, i) ==
    LET fname == namelist(archive)[i]
        parsed == from_file(fname, ArchiveRead(archive, fname))
    IN  IF parsed.raised # None
        THEN [sess EXCEPT !.raised = parsed.raised]
        ELSE
        LET fw_new == parsed.obj[1]
            q == QueryOneOrNone(sess, "firmware_files", fw_new.name)
        IN  IF q.sess.raised # None THEN q.sess
            ELSE IF q.obj = None
            THEN SessionAdd(q.sess, "firmware_files", fw_new)
            ELSE SessionAssign(q.sess, "firmware_files", q.obj[1],
                               [q.obj[1] EXCEPT
                                   !.lib_version = fw_new.lib_version,
                                   !.hash = fw_new.hash,
                                   !.firmware = fw_new.firmware])

\* AddFirmwareEntry had the update of a stored build left its blob out.
AddFirmwareEntryKeepsBlob(sess, archive, i) ==
    LET fname == namelist(archive)[i]
        parsed == from_file(fname, ArchiveRead(archive, fname))
    IN  IF parsed.raised # None
        THEN [sess EXCEPT !.raised = parsed.raised]
        ELSE
        LET fw_new == parsed.obj[1]
            q == QueryOneOrNone(sess, "firmware_files", fw_new.name)
        IN  IF q.sess.raised # None THEN q.sess
            ELSE IF q.obj = None
            THEN SessionAdd(q.sess, "firmware_files", fw_new)
            ELSE IF version(q.obj[1]) # version(fw_new)
            THEN SessionAssign(q.sess, "firmware_files", q.obj[1],
                               [q.obj[1] EXCEPT
                                   !.lib_version = fw_new.lib_version,
                                   !.hash = fw_new.hash])
            ELSE q.sess

\* One turn of the loop of add_firmware, for the i-th name of the archive.
AddFirmwareEntry(sess, archive, i) ==
    LET fname == namelist(archive)[i]
        parsed == from_file(fname, ArchiveRead(archive, fname))
    IN  IF parsed.raised # None
        THEN [sess EXCEPT !.raised = parsed.raised]
        ELSE
        LET fw_new == parsed.obj[1]
            q == QueryOneOrNone(sess, "firmware_files", fw_new.name)
        IN  IF q.sess.raised # None THEN q.sess
            ELSE IF q.obj = None
            THEN SessionAdd(q.sess, "firmware_files", fw_new)
            ELSE IF version(q.obj[1]) # version(fw_new)
            THEN SessionAssign(q.sess, "firmware_files", q.obj[1],
                               [q.obj[1] EXCEPT
                                   !.lib_version = fw_new.lib_version,
                                   !.hash = fw_new.hash,
                                   !.firmware = fw_new.firmware])
            ELSE q.sess

\* The loop of add_firmware from the i-th name on; an exception ends it.
RECURSIVE AddFirmwareLoop(_, _, _)
AddFirmwareLoop(sess, archive, i) ==
    IF sess.raised # None \/ i > Len(archive) THEN sess
    ELSE AddFirmwareLoop(AddFirmwareEntry(sess, archive, i), archive, i + 1)

\* DataInterface.add_firmware
add_firmware(db, archive) ==
    LET out == Commit(db, AddFirmwareLoop(Session(db), archive, 1))
    IN  [db |-> out.db, raised |-> out.raised, ret |-> None]

\* DataInterface.get_firmware
get_firmware(db, fw_name) ==
    LET q == QueryOneOrNone(Session(db), "firmware_files", fw_name)
    IN  [db |-> db, raised |-> None,
         ret |-> IF q.obj = None THEN None
                 ELSE Some(FirmwareAsDict(q.obj[1]))]

\* DataInterface.get_firmware_names
get_firmware_names(db) ==
    [db |-> db, raised |-> None,
     ret |-> Some({r.name : r \in db.firmware_files})]

\* set_node_name had the length test been > in place of >=.
set_node_name_gt(db, nodeId, name) ==
    IF Len(name) > DB_STR_LEN
    THEN [db |-> db, raised |-> Some("ValueError"), ret |-> None]
    ELSE
    LET q == QueryOneOrNone(Session(db), "nodes", nodeId)
        nodeInfo == IF q.obj = None THEN MonitorNode(nodeId, name)
                    ELSE [q.obj[1] EXCEPT !.name = Some(name)]
        s1 == IF q.obj = None
              THEN SessionAdd(q.sess, "nodes", nodeInfo)
              ELSE SessionAssign(q.sess, "nodes", q.obj[1], nodeInfo)
        out == Commit(db, s1)
    IN  [db |-> out.db, raised |-> out.raised,
         ret |-> IF out.raised = None THEN Some(NodeAsDict(nodeInfo))
                 ELSE None]

\* set_node_name had a stored node been replaced by a new MonitorNode of
\* the given name in place of the assignment to its name.
set_node_name_replaces(db, nodeId, name) ==
    IF Len(name) >= DB_STR_LEN
    THEN [db |-> db, raised |-> Some("ValueError"), ret |-> None]
    ELSE
    LET q == QueryOneOrNone(Session(db), "nodes", nodeId)
        nodeInfo == MonitorNode(nodeId, name)
        s1 == IF q.obj = None
              THEN SessionAdd(q.sess, "nodes", nodeInfo)
              ELSE SessionAssign(q.sess, "nodes", q.obj[1], nodeInfo)
        out == Commit(db, s1)
    IN  [db |-> out.db, raised |-> out.raised,
         ret |-> IF out.raised = None THEN Some(NodeAsDict(nodeInfo))
                 ELSE None]

\* DataInterface.set_node_name
set_node_name(db, nodeId, name) ==
    IF Len(name) >= DB_STR_LEN
    THEN [db |-> db, raised |-> Some("ValueError"), ret |-> None]
    ELSE
    LET q == QueryOneOrNone(Session(db), "nodes", nodeId)
        nodeInfo == IF q.obj = None THEN MonitorNode(nodeId, name)
                    ELSE [q.obj[1] EXCEPT !.name = Some(name)]
        s1 == IF q.obj = None
              THEN SessionAdd(q.sess, "nodes", nodeInfo)
              ELSE SessionAssign(q.sess, "nodes", q.obj[1], nodeInfo)
        out == Commit(db, s1)
    IN  [db |-> out.db, raised |-> out.raised,
         ret |-> IF out.raised = None THEN Some(NodeAsDict(nodeInfo))
                 ELSE None]

\* DataInterface.get_nodes
get_nodes(db) ==
    [db |-> db, raised |-> None,
     ret |-> Some({NodeAsDict(n) : n \in db.nodes})]

(* ------------------------------ api_server ----------------------------- *)

\* GET /fw/<fwname>; x_fwver is the X-FWVER header, None when absent.  The
\* response is [status, body, download_name].
firmware(db, fwname, x_fwver) ==
    LET fw == get_firmware(db, fwname).ret
    IN  IF fw = None
        THEN [status |-> 404, body |-> Some("Not Found"),
              download_name |-> None]
        ELSE IF x_fwver # None
        THEN IF x_fwver[1] = fw[1].version
             THEN [status |-> 304, body |-> Some("Not Modified"),
                   download_name |-> None]
             ELSE [status |-> 200, body |-> Some(fw[1].firmware),
                   download_name |->
                       Some(fw[1].version \o <<".", "b", "i", "n">>)]
        ELSE [status |-> 200,
              body |-> Some([name |-> fw[1].name,
                             lib_version |-> fw[1].lib_version,
                             hash |-> fw[1].hash,
                             version |-> fw[1].version]),
              download_name |-> None]

(* ------------------------------- schema -------------------------------- *)
(* schema gives the columns of each table the store holds, in the order of *)
(* their declaration.  A row of stats_entries under the earlier layout has *)
(* no entry_id; rowid is the key SQLite keeps of a row of such a table,    *)
(* one more for each row inserted.                                         *)

NodeColumns == <<"id", "name", "last_ip">>

FirmwareColumns == <<"name", "lib_version", "hash", "firmware">>

\* StatsInstance.__table__.columns
StatsColumns ==
    <<"entry_id", "id", "timestamp", "high_temp", "low_temp", "air_temp",
      "humidity", "digital_1", "digital_2", "analog">>

\* The columns of stats_entries as earlier versions created it: keyed by
\* timestamp, without entry_id.
LegacyColumns ==
    <<"id", "timestamp", "high_temp", "low_temp", "air_temp", "humidity",
      "digital_1", "digital_2", "analog">>

Columns(table) ==
    CASE table = "nodes" -> NodeColumns
      [] table = "firmware_files" -> FirmwareColumns
      [] table = "stats_entries" -> StatsColumns

\* A store without tables.
NoTables == [t \in {} |-> <<>>]

\* Base.metadata.create_all: each table that is missing is created; one
\* that exists is left as it is.
create_all(sch) ==
    [t \in Tables \cup DOMAIN sch |->
        IF t \in DOMAIN sch THEN sch[t] ELSE Columns(t)]

Range(f) == {f[i] : i \in DOMAIN f}

\* ProbeFails had the probe named a column no layout has.
ProbeAlwaysFails(sch) ==
    TRUE

\* SELECT COUNT(entry_id) FROM stats_entries raises: the table has no such
\* column.
ProbeFails(sch) ==
    "entry_id" \notin Range(sch["stats_entries"])

\* SelectAll had the scan gone by an index in descending order.
SelectAllDescending(rows) ==
    LET n == Cardinality(rows)
        nth(k) == CHOOSE r \in rows :
                      Cardinality({q \in rows : q.rowid > r.rowid}) = k - 1
    IN  [k \in 1..n |-> nth(k)]

\* SELECT * FROM stats_entries on the earlier layout: the rows in the order
\* of the table scan, by rowid.
SelectAll(rows) ==
    LET n == Cardinality(rows)
        nth(k) == CHOOSE r \in rows :
                      Cardinality({q \in rows : q.rowid < r.rowid}) = k - 1
    IN  [k \in 1..n |-> nth(k)]

\* INSERT INTO stats_entries_new (cols) SELECT * ...: the values of each
\* selected row go, by position, to the columns named; entry_id is left to
\* the store.
RECURSIVE CopyRows(_, _, _, _)
CopyRows(selected, fromCols, cols, into) ==
    IF selected = <<>> THEN into
    ELSE LET r == Head(selected)
             row == [c \in Range(StatsColumns) |->
                        IF c = "entry_id" THEN NextEntryId(into)
                        ELSE LET i == CHOOSE j \in DOMAIN cols : cols[j] = c
                             IN  r[fromCols[i]]]
         IN  CopyRows(Tail(selected), fromCols, cols, into \cup {row})

\* update_schema had the new table taken the place of the old one without
\* the copy of the rows.
update_schema_without_copy(db, sch) ==
    IF ~ProbeFails(sch)
    THEN [db |-> db, schema |-> sch, raised |-> None]
    ELSE [db |-> [db EXCEPT !.stats_entries = {}],
          schema |-> [sch EXCEPT !["stats_entries"] = StatsColumns],
          raised |-> None]

\* DataInterface.update_schema: [db, schema, raised].  The shadow table is
\* created, filled, and takes the place of stats_entries; a SELECT * of
\* another width than the column list is refused by the store, and the
\* exception leaves the connection without a commit.
update_schema(db, sch) ==
    IF ~ProbeFails(sch)
    THEN [db |-> db, schema |-> sch, raised |-> None]
    ELSE
    LET cols == SelectSeq(StatsColumns, LAMBDA c : c # "entry_id")
        fromCols == sch["stats_entries"]
        created == [t \in DOMAIN sch \cup {"stats_entries_new"} |->
                       IF t \in DOMAIN sch THEN sch[t] ELSE StatsColumns]
        new_rows == CopyRows(SelectAll(db.stats_entries), fromCols, cols, {})
        renamed == [t \in DOMAIN created \ {"stats_entries_new"} |->
                       IF t = "stats_entries" THEN created["stats_entries_new"]
                       ELSE created[t]]
    IN  IF Len(fromCols) # Len(cols)
        THEN [db |-> db, schema |-> sch, raised |-> Some("OperationalError")]
        ELSE [db |-> [db EXCEPT !.stats_entries = new_rows],
              schema |-> renamed, raised |-> None]

(* ------------------------------- inputs -------------------------------- *)

NodeIds == {12345, 23456}

IPs == {"10.3.0.1", "127.0.0.1"}

\* A name of 255 characters, the longest set_node_name accepts.
LongestName == Repeat("x", DB_STR_LEN - 1)

\* A name of 256 characters.
TooLongName == Repeat("12ab", DB_STR_LEN \div 4)

NodeNames == {"Test Node 1", LongestName, TooLongName}

\* One instant as two ISO-8601 strings, 2020-03-20T14:30+00:00 and
\* 2020-03-20T15:30+01:00 (minutes of the day).
Timestamps ==
    {[typed |-> FALSE, wall |-> 870, utcoffset |-> 0],
     [typed |-> FALSE, wall |-> 930, utcoffset |-> 60]}

\* The value a monitor sends under key k (floats in hundredths, nullable
\* columns as Optional).
FieldValue(id, ts, k) ==
    CASE k = "id" -> id
      [] k = "timestamp" -> ts
      [] k = "high_temp" -> Some(2450)
      [] k = "low_temp" -> Some(2000)
      [] k = "air_temp" -> Some(2224)
      [] k = "humidity" -> Some(7200)
      [] k = "digital_1" -> 0
      [] k = "digital_2" -> 1
      [] k = "analog" -> 135

\* Payloads with every required key, and with one of them missing.
Payloads ==
    {[k \in Keys \ m |-> FieldValue(id, ts, k)] :
        id \in NodeIds, ts \in Timestamps,
        m \in {{}} \cup {{k} : k \in Keys}}

Hash1 == <<"8", "d", "d", "d", "8", "b", "e", "4", "b", "1", "7", "9", "a", "5", "2", "9", "a", "f", "a", "5", "f", "2", "f", "f", "a", "e", "4", "b", "9", "8", "5", "8">>

Hash2 == <<"3", "8", "5", "8", "f", "6", "2", "2", "3", "0", "a", "c", "3", "c", "9", "1", "5", "f", "3", "0", "0", "c", "6", "6", "4", "3", "1", "2", "c", "6", "3", "f">>

Tag(name, lib_version, hash) ==
    name \o <<"-">> \o lib_version \o <<"-">> \o hash

FileName(name, lib_version, hash) ==
    Tag(name, lib_version, hash) \o <<".", "b", "i", "n">>

Fw1 == <<"f", "w", "1">>

Fw2 == <<"f", "w", "2">>

FwNone == <<"n", "o", "n", "e">>

V123 == <<"1", ".", "2", ".", "3">>

V122 == <<"1", ".", "2", ".", "2">>

V1 == <<"1">>

HelloWorldTxt == <<"h", "e", "l", "l", "o", "_", "w", "o", "r", "l", "d", ".", "t", "x", "t">>

\* The members an archive is made of: a build of fw1 under two contents, an
\* older build of fw1, a build of fw2 and a file that is no firmware.
ArchiveEntries ==
    {[fname |-> FileName(Fw1, V123, Hash1), data |-> "111"],
     [fname |-> FileName(Fw1, V123, Hash1), data |-> "999"],
     [fname |-> FileName(Fw1, V122, Hash1), data |-> "110"],
     [fname |-> FileName(Fw2, V1, Hash2), data |-> "222"],
     [fname |-> HelloWorldTxt, data |-> "Hello world!"]}

Archives ==
    UNION {[1..n -> ArchiveEntries] : n \in 0..MaxEntries}

FwNames == {Fw1, Fw2, FwNone}

\* X-FWVER values a monitor may hold.
VersionTags == {Tag(Fw1, V123, Hash1), Tag(Fw1, V122, Hash1)}

\* The archive fetched at start-up: none (FIRMWARE_URL unset or the
\* download failed), or one with a build of fw1 and of fw2.
StartupArchives ==
    {<<>>,
     <<[fname |-> FileName(Fw1, V123, Hash1), data |-> "111"],
       [fname |-> FileName(Fw2, V1, Hash2), data |-> "222"]>>}

(* ------------------- ingest under concurrent requests ------------------ *)
(* The server handles requests on threads; each ingest opens its own       *)
(* session.  requests[p] is the ingest thread p is in: pc its position     *)
(* (idle, queried: the node was looked up, flushing: statements of the     *)
(* commit have been sent, done), id the node id of the payload, obj the    *)
(* node the query found, work the statements the commit has yet to send,   *)
(* tx the store as the open transaction sees it, raised the exception the  *)
(* call ended with.  The tables are the committed store, the one every     *)
(* other session reads.                                                    *)

Threads == {1, 2}

Idle ==
    [pc |-> "idle", id |-> None, obj |-> None, work |-> <<>>, tx |-> None,
     raised |-> None]

\* sched is the BackgroundScheduler and the archive runs in flight: started
\* tells whether scheduler.start() has been called, runs holds one record
\* for each call of get_firmware_archive that has not returned (by: the
\* start-up code or the job; archive: None until the download is over),
\* ticks counts the times the interval has elapsed and skipped the ticks
\* that submitted no run.
NoScheduler ==
    [started |-> FALSE, runs |-> <<>>, ticks |-> 0, skipped |-> 0]

(* --------------------------- the state machine ------------------------- *)

EmptyDB ==
    [nodes |-> {}, firmware_files |-> {}, stats_entries |-> {}]

\* create_all on a fresh store, then the start-up fetch of api_server.
Init ==
    /\ nodes = {}
    /\ stats_entries = {}
    /\ \E a \in StartupArchives :
           firmware_files = add_firmware(EmptyDB, a).db.firmware_files
    /\ lastOp = [op |-> "init", args |-> <<>>, raised |-> None, ret |-> None,
                 again |-> FALSE]
    /\ requests = [p \in Threads |-> Idle]
    /\ schema = create_all(NoTables)
    /\ phase = "serving"
    /\ sched = [NoScheduler EXCEPT !.started = TRUE]

\* The store after a call, and the record of the call: the operation, its
\* arguments, the exception it raised, the value it returned, and whether
\* the call before it was the same operation on the same arguments.
Apply(out, op, args) ==
    /\ nodes' = out.db.nodes
    /\ firmware_files' = out.db.firmware_files
    /\ stats_entries' = out.db.stats_entries
    /\ lastOp' = [op |-> op, args |-> args, raised |-> out.raised,
                  ret |-> out.ret,
                  again |-> (lastOp.op = op /\ lastOp.args = args)]
    /\ UNCHANGED <<requests, schema, phase, sched>>

Ingest ==
    /\ Cardinality(stats_entries) < MaxStats
    /\ \E stats \in Payloads, ip \in {None} \cup {Some(a) : a \in IPs} :
           Apply(ingest(DB, stats, ip), "ingest",
                 [stats |-> stats, ip |-> ip])

SetNodeName ==
    \E nodeId \in NodeIds, name \in NodeNames :
        Apply(set_node_name(DB, nodeId, name), "set_node_name",
              [nodeId |-> nodeId, name |-> name])

GetNodes ==
    Apply(get_nodes(DB), "get_nodes", <<>>)

AddFirmware ==
    \E archive \in Archives :
        Apply(add_firmware(DB, archive), "add_firmware",
              [archive |-> archive])

GetFirmware ==
    \E fw_name \in FwNames :
        Apply(get_firmware(DB, fw_name), "get_firmware",
              [fw_name |-> fw_name])

GetFirmwareNames ==
    Apply(get_firmware_names(DB), "get_firmware_names", <<>>)

Firmware ==
    \E fwname \in FwNames, x_fwver \in {None} \cup {Some(t) : t \in VersionTags} :
        Apply([db |-> DB, raised |-> None,
               ret |-> Some(firmware(DB, fwname, x_fwver))],
              "firmware", [fwname |-> fwname, x_fwver |-> x_fwver])

Next ==
    \/ Ingest
    \/ SetNodeName
    \/ GetNodes
    \/ AddFirmware
    \/ GetFirmware
    \/ GetFirmwareNames
    \/ Firmware

Spec == Init /\ [][Next]_vars

\* The node registry and the telemetry table under the requests that use
\* them.
NextNodes ==
    \/ Ingest
    \/ SetNodeName
    \/ GetNodes

SpecNodes == Init /\ [][NextNodes]_vars

\* The firmware repository under the archive runs and the requests that
\* use it.
NextFirmware ==
    \/ AddFirmware
    \/ GetFirmware
    \/ GetFirmwareNames
    \/ Firmware

SpecFirmware == Init /\ [][NextFirmware]_vars

TypeOK ==
    /\ \A n \in nodes : n.id \in NodeIds
    /\ \A r \in stats_entries :
           /\ r.id \in NodeIds
           /\ ~ProbeFails(schema) => r.entry_id \in 1..(MaxStats + MaxLegacy + 1)
    /\ phase \in {"stopped", "schema_ready", "serving"}
    /\ \A f \in firmware_files : f.name \in FwNames

(* ---------------------- the steps of one ingest ------------------------ *)

\* ingest up to session.commit(): the exception of from_dict, the node the
\* query found, and the statements the unit of work holds for the flush, in
\* the order the objects were added: the INSERT of a node created (with the
\* address assigned to it), or the UPDATE of the one attribute changed on a
\* node found, then the INSERT of the telemetry row.
ingest_begin(db, stats, ip) ==
    LET instance == from_dict(stats)
    IN  IF instance.raised # None
        THEN [raised |-> instance.raised, obj |-> None, work |-> <<>>]
        ELSE
        LET q == QueryOneOrNone(Session(db), "nodes", stats["id"])
            created == MonitorNode(stats["id"], str(stats["id"]))
            nodeStmt ==
                IF q.obj = None
                THEN <<[stmt |-> "INSERT", table |-> "nodes",
                        row |-> IF ip # None
                                THEN [created EXCEPT !.last_ip = ip]
                                ELSE created]>>
                ELSE IF ip # None /\ q.obj[1].last_ip # ip
                THEN <<[stmt |-> "UPDATE", table |-> "nodes",
                        row |-> [id |-> stats["id"], last_ip |-> ip]]>>
                ELSE <<>>
        IN  [raised |-> None, obj |-> q.obj,
             work |-> nodeStmt \o
                      <<[stmt |-> "INSERT", table |-> "stats_entries",
                         row |-> instance.obj[1]]>>]

\* One statement of the flush, run on the store as the transaction sees
\* it: [db, raised].  An UPDATE sets the changed column of the row with the
\* key.
Execute(tx, st) ==
    IF st.stmt = "INSERT"
    THEN LET s == InsertRow(Session(tx), st.table, st.row)
         IN  [db |-> s.db, raised |-> s.raised]
    ELSE [db |-> [tx EXCEPT !.nodes =
                    {IF n.id = st.row.id
                     THEN [n EXCEPT !.last_ip = st.row.last_ip] ELSE n :
                        n \in @}],
          raised |-> None]

\* Visible had the engine run in autocommit: each statement is committed as
\* it is sent.
VisibleUncommitted(db, tx) ==
    tx

\* What the other sessions read while a transaction is open on the store
\* db and sees tx: the committed store.
Visible(db, tx) ==
    db

\* The store takes one writer at a time: a session whose transaction has
\* written holds it until its commit or rollback.
WriterFree(p) ==
    \A q \in Threads \ {p} : requests[q].tx = None

SetTables(db) ==
    /\ nodes' = db.nodes
    /\ firmware_files' = db.firmware_files
    /\ stats_entries' = db.stats_entries

\* The request ended: what it leaves behind for its caller.
Done(r, raised) ==
    [r EXCEPT !.pc = "done", !.tx = None, !.raised = raised]

ConcurrentPayloads ==
    {s \in Payloads :
        /\ "timestamp" \in DOMAIN s => s["timestamp"].utcoffset = 0
        /\ DOMAIN s \in {Keys, Keys \ {"analog"}}}

ConcurrentIPs == {None, Some("10.3.0.1")}

\* A request arrives on thread p: from_dict, then the query for the node.
IngestQuery(p) ==
    /\ requests[p].pc \in {"idle", "done"}
    /\ Cardinality(stats_entries) < MaxStats
    /\ \E stats \in ConcurrentPayloads, ip \in ConcurrentIPs :
           LET b == ingest_begin(DB, stats, ip)
           IN  requests' = [requests EXCEPT ![p] =
                   IF b.raised # None
                   THEN Done(Idle, b.raised)
                   ELSE [pc |-> "queried", id |-> Some(stats["id"]),
                         obj |-> b.obj, work |-> b.work, tx |-> None,
                         raised |-> None]]
    /\ UNCHANGED <<nodes, firmware_files, stats_entries, lastOp, schema, phase,
                   sched>>

\* session.commit() sends the next statement of the flush; one the store
\* rejects rolls the transaction back and ends the call with the exception.
IngestFlush(p) ==
    /\ requests[p].pc \in {"queried", "flushing"}
    /\ requests[p].work # <<>>
    /\ WriterFree(p)
    /\ LET r == requests[p]
           tx == IF r.tx = None THEN DB ELSE r.tx[1]
           out == Execute(tx, Head(r.work))
       IN  IF out.raised # None
           THEN /\ requests' = [requests EXCEPT ![p] = Done(r, out.raised)]
                /\ UNCHANGED <<nodes, firmware_files, stats_entries>>
           ELSE /\ requests' = [requests EXCEPT ![p] =
                       [r EXCEPT !.pc = "flushing", !.work = Tail(@),
                                 !.tx = Some(out.db)]]
                /\ SetTables(Visible(DB, out.db))
    /\ UNCHANGED <<lastOp, schema, phase, sched>>

\* session.commit() commits once every statement has been sent.
IngestCommit(p) ==
    /\ requests[p].pc = "flushing"
    /\ requests[p].work = <<>>
    /\ SetTables(requests[p].tx[1])
    /\ requests' = [requests EXCEPT ![p] = Done(@, None)]
    /\ UNCHANGED <<lastOp, schema, phase, sched>>

\* The store fails while the transaction is open (the disk, the lock, the
\* connection): leaving the with block rolls back.
IngestFail(p) ==
    /\ requests[p].pc = "flushing"
    /\ requests' = [requests EXCEPT ![p] = Done(@, Some("OperationalError"))]
    /\ UNCHANGED <<nodes, firmware_files, stats_entries, lastOp, schema, phase,
                   sched>>

NextConcurrent ==
    \E p \in Threads :
        \/ IngestQuery(p)
        \/ IngestFlush(p)
        \/ IngestCommit(p)
        \/ IngestFail(p)

SpecConcurrent == Init /\ [][NextConcurrent]_vars

(* ------------------------ the life of the server ----------------------- *)
(* phase is where the process stands: stopped, schema_ready (DataInterface *)
(* is constructed and update_schema has returned), serving (the start-up   *)
(* fetch is over and requests are handled).  The store outlives the        *)
(* process.                                                                *)

\* The minutes stored in the rows of an earlier store.
LegacyStamps == {870, 871, 872}

LegacyRow(rowid, id, wall) ==
    [c \in Range(LegacyColumns) \cup {"rowid"} |->
        IF c = "rowid" THEN rowid
        ELSE FieldValue(id, [typed |-> TRUE, wall |-> wall, utcoffset |-> 0],
                        c)]

\* The telemetry tables earlier versions may have left: up to MaxLegacy
\* rows, no two with one timestamp (the key of that layout), inserted in
\* any order of their timestamps.
LegacyStores ==
    UNION {{{LegacyRow(k, f[k][1], f[k][2]) : k \in 1..n} :
               f \in {g \in [1..n -> NodeIds \X LegacyStamps] :
                         \A i, j \in 1..n : i # j => g[i][2] # g[j][2]}} :
           n \in 0..MaxLegacy}

\* The store the process finds when it is started for the first time: none,
\* or one written under the earlier layout.
InitStore ==
    /\ nodes = {}
    /\ firmware_files = {}
    /\ \/ schema = NoTables /\ stats_entries = {}
       \/ /\ schema = [t \in {"stats_entries"} |-> LegacyColumns]
          /\ stats_entries \in LegacyStores
    /\ lastOp = [op |-> "init", args |-> <<>>, raised |-> None, ret |-> None,
                 again |-> FALSE]
    /\ requests = [p \in Threads |-> Idle]
    /\ phase = "stopped"
    /\ sched = NoScheduler

\* UpdateSchema had line 15 been left out: the tables that are missing are
\* created and the start-up goes on without update_schema.
UpdateSchemaSkipped ==
    /\ phase = "stopped"
    /\ schema' = create_all(schema)
    /\ phase' = "schema_ready"
    /\ UNCHANGED <<nodes, firmware_files, stats_entries, lastOp, requests,
                   sched>>

\* db = DataInterface(...); db.update_schema()
UpdateSchema ==
    /\ phase = "stopped"
    /\ LET out == update_schema(DB, create_all(schema))
       IN  /\ SetTables(out.db)
           /\ schema' = out.schema
           /\ phase' = IF out.raised = None THEN "schema_ready" ELSE "stopped"
           /\ lastOp' = [op |-> "update_schema", args |-> <<>>,
                         raised |-> out.raised, ret |-> None,
                         again |-> (lastOp.op = "update_schema")]
    /\ UNCHANGED <<requests, sched>>

\* The start-up fetch, after which the scheduler is started and the
\* requests are served.
StartupFetch ==
    /\ phase = "schema_ready"
    /\ \E archive \in StartupArchives :
           LET out == add_firmware(DB, archive)
           IN  /\ SetTables(out.db)
               /\ phase' = IF out.raised = None THEN "serving" ELSE "stopped"
               /\ lastOp' = [op |-> "add_firmware",
                             args |-> [archive |-> archive],
                             raised |-> out.raised, ret |-> out.ret,
                             again |-> FALSE]
               /\ sched' = [sched EXCEPT !.started = (out.raised = None)]
    /\ UNCHANGED <<requests, schema>>

\* The process ends.
Shutdown ==
    /\ phase # "stopped"
    /\ phase' = "stopped"
    /\ sched' = NoScheduler
    /\ UNCHANGED <<nodes, firmware_files, stats_entries, lastOp, requests,
                   schema>>

ServeIngest ==
    /\ phase = "serving"
    /\ Cardinality(stats_entries) < MaxStats
    /\ \E stats \in ConcurrentPayloads, ip \in ConcurrentIPs :
           Apply(ingest(DB, stats, ip), "ingest",
                 [stats |-> stats, ip |-> ip])

ServeSetNodeName ==
    /\ phase = "serving"
    /\ \E nodeId \in NodeIds, name \in {"Test Node 1", TooLongName} :
           Apply(set_node_name(DB, nodeId, name), "set_node_name",
                 [nodeId |-> nodeId, name |-> name])

ServeGetNodes ==
    /\ phase = "serving"
    /\ Apply(get_nodes(DB), "get_nodes", <<>>)

\* The scheduled job.
ServeAddFirmware ==
    /\ phase = "serving"
    /\ \E archive \in StartupArchives :
           Apply(add_firmware(DB, archive), "add_firmware",
                 [archive |-> archive])

NextLifecycle ==
    \/ UpdateSchema
    \/ StartupFetch
    \/ Shutdown
    \/ ServeIngest
    \/ ServeSetNodeName
    \/ ServeGetNodes
    \/ ServeAddFirmware

\* The server started, stopped and started again on a store that may have
\* been written under the earlier layout.
SpecLifecycle == InitStore /\ [][NextLifecycle]_vars

(* ------------------------- the archive runs ---------------------------- *)
(* The start-up code of api_server from line 17 on and the scheduled job.  *)
(* phase goes from schema_ready to startup_fetch (the call of line 19 is   *)
(* running), fetched (it has returned) and serving (scheduler.start() has  *)
(* been called).  A call of get_firmware_archive takes two steps, the      *)
(* download and add_firmware.                                              *)

\* What a download may deliver.
SchedArchives == {a \in Archives : Len(a) <= 1}

\* The sequence without its i-th element.
Remove(seq, i) ==
    SubSeq(seq, 1, i - 1) \o SubSeq(seq, i + 1, Len(seq))

\* Busy had the job been added with no limit on its instances.
NeverBusy(runs) ==
    FALSE

\* The scheduler finds max_instances instances of the job running.
Busy(runs) ==
    Cardinality({i \in DOMAIN runs : runs[i].by = "job"}) >= MaxInstances

InitScheduler ==
    /\ nodes = {}
    /\ firmware_files = {}
    /\ stats_entries = {}
    /\ lastOp = [op |-> "init", args |-> <<>>, raised |-> None, ret |-> None,
                 again |-> FALSE]
    /\ requests = [p \in Threads |-> Idle]
    /\ schema = create_all(NoTables)
    /\ phase = "schema_ready"
    /\ sched = NoScheduler

\* FIRMWARE_URL is set: the start-up code calls get_firmware_archive.
StartupRun ==
    /\ phase = "schema_ready"
    /\ phase' = "startup_fetch"
    /\ sched' = [sched EXCEPT !.runs =
                    Append(@, [by |-> "startup", archive |-> None])]
    /\ UNCHANGED <<nodes, firmware_files, stats_entries, lastOp, requests,
                   schema>>

\* FIRMWARE_URL is not set: no run, no job, no scheduler.start().
NoFirmwareUrl ==
    /\ phase = "schema_ready"
    /\ phase' = "serving"
    /\ UNCHANGED <<nodes, firmware_files, stats_entries, lastOp, requests,
                   schema, sched>>

\* The run ends: with an exception in the start-up code the process ends,
\* one in the job is logged by the scheduler.
EndRun(i, raised) ==
    /\ sched' = [sched EXCEPT !.runs = Remove(@, i)]
    /\ phase' = IF sched.runs[i].by = "startup"
                THEN IF raised = None THEN "fetched" ELSE "stopped"
                ELSE phase

\* requests.get(uri) returns an archive, returns a response that is not ok
\* (a warning is logged, the run is over) or raises.
RunFetch(i) ==
    /\ sched.runs[i].archive = None
    /\ \/ \E a \in SchedArchives :
              /\ sched' = [sched EXCEPT !.runs[i].archive = Some(a)]
              /\ phase' = phase
       \/ EndRun(i, None)
       \/ EndRun(i, Some("ConnectionError"))
    /\ UNCHANGED <<nodes, firmware_files, stats_entries, lastOp, requests,
                   schema>>

\* db.add_firmware(archive), the last statement of the run.
RunAdd(i) ==
    /\ sched.runs[i].archive # None
    /\ LET archive == sched.runs[i].archive[1]
           out == add_firmware(DB, archive)
       IN  /\ SetTables(out.db)
           /\ lastOp' = [op |-> "add_firmware", args |-> [archive |-> archive],
                         raised |-> out.raised, ret |-> out.ret,
                         again |-> (/\ lastOp.op = "add_firmware"
                                    /\ lastOp.args = [archive |-> archive])]
           /\ EndRun(i, out.raised)
    /\ UNCHANGED <<requests, schema>>

\* scheduler.add_job(...); scheduler.start()
SchedulerStart ==
    /\ phase = "fetched"
    /\ phase' = "serving"
    /\ sched' = [sched EXCEPT !.started = TRUE]
    /\ UNCHANGED <<nodes, firmware_files, stats_entries, lastOp, requests,
                   schema>>

\* The interval of the job elapses: the scheduler submits a run of it,
\* unless max_instances of them are running.
Trigger ==
    /\ sched.started
    /\ sched.ticks < MaxTicks
    /\ sched' = IF Busy(sched.runs)
                THEN [sched EXCEPT !.ticks = @ + 1, !.skipped = @ + 1]
                ELSE [sched EXCEPT !.ticks = @ + 1,
                                   !.runs = Append(@, [by |-> "job",
                                                       archive |-> None])]
    /\ UNCHANGED <<nodes, firmware_files, stats_entries, lastOp, requests,
                   schema, phase>>

NextScheduler ==
    \/ StartupRun
    \/ NoFirmwareUrl
    \/ \E i \in DOMAIN sched.runs : RunFetch(i)
    \/ \E i \in DOMAIN sched.runs : RunAdd(i)
    \/ SchedulerStart
    \/ Trigger

SpecScheduler == InitScheduler /\ [][NextScheduler]_vars

(* -------------------- file names in either letter case ----------------- *)

\* str.upper() of a sequence of characters, on the letters a hash may hold.
UpperChar(c) ==
    CASE c = "a" -> "A" [] c = "b" -> "B" [] c = "c" -> "C"
      [] c = "d" -> "D" [] c = "e" -> "E" [] c = "f" -> "F"
      [] OTHER -> c

Upper(h) ==
    [i \in DOMAIN h |-> UpperChar(h[i])]

\* The builds of the archives above with the hash of the file name in lower
\* case and in upper case, the bytes the same.
CasedEntries ==
    {[fname |-> FileName(Fw1, V123, Hash1), data |-> "111"],
     [fname |-> FileName(Fw1, V123, Upper(Hash1)), data |-> "111"],
     [fname |-> FileName(Fw2, V1, Upper(Hash2)), data |-> "222"]}

CasedArchives ==
    UNION {[1..n -> CasedEntries] : n \in 0..MaxEntries}

AddFirmwareCased ==
    \E archive \in CasedArchives :
        Apply(add_firmware(DB, archive), "add_firmware",
              [archive |-> archive])

NextHashCase ==
    \/ AddFirmwareCased
    \/ GetFirmware
    \/ GetFirmwareNames

\* The firmware repository under archives that spell the hash in either
\* case.
SpecHashCase == Init /\ [][NextHashCase]_vars

(* ----------------------- timestamps of any form ------------------------ *)

\* The timestamps a caller of ingest may supply: ISO-8601 strings with an
\* offset and timezone-aware datetime objects, in UTC, east and west of it.
SuppliedTimestamps ==
    {[typed |-> t, wall |-> w, utcoffset |-> o] :
        t \in BOOLEAN, w \in {5, 870, 930}, o \in {-300, 0, 60}}

IngestTimestamp ==
    /\ Cardinality(stats_entries) < MaxStats
    /\ \E ts \in SuppliedTimestamps :
           LET stats == [k \in Keys |-> FieldValue(12345, ts, k)]
           IN  Apply(ingest(DB, stats, None), "ingest",
                     [stats |-> stats, ip |-> None])

NextTimestamps ==
    \/ IngestTimestamp
    \/ GetNodes

\* ingest called with timestamps of either form.
SpecTimestamps == Init /\ [][NextTimestamps]_vars

(* ------------------------------- claims -------------------------------- *)
(* A step of the machine is one call: lastOp' names the call, the unprimed *)
(* tables are the store before it and the primed ones the store after it.  *)

\* Some member of the archive has a file name FW_FILE_RE does not match.
HasBadName(archive) ==
    \E i \in DOMAIN archive : FW_FILE_RE(archive[i].fname) = None

\* The rows of the firmware table t stored under name.
Stored(t, name) ==
    {f \in t : f.name = name}

\* C1: addFirmwareArchive is all-or-nothing: a call on an archive with at
\* least one file name that does not match the pattern fails with the
\* validation error and leaves the firmware table exactly as it was, the
\* valid entries processed before the bad one included.
C1_AllOrNothing ==
    [][(lastOp'.op = "add_firmware" /\ HasBadName(lastOp'.args.archive))
        => /\ lastOp'.raised = Some("AttributeError")
           /\ firmware_files' = firmware_files]_vars

\* A failed call whose first entry is valid, names a stored firmware and
\* carries another version than the stored one, and whose second entry is
\* the bad one: the store still holds the old version.
C1_Witness ==
    /\ lastOp.op = "add_firmware"
    /\ lastOp.raised = Some("AttributeError")
    /\ Len(lastOp.args.archive) >= 2
    /\ FW_FILE_RE(lastOp.args.archive[1].fname) # None
    /\ FW_FILE_RE(lastOp.args.archive[2].fname) = None
    /\ LET g == FW_FILE_RE(lastOp.args.archive[1].fname)[1]
       IN  \E f \in firmware_files :
               /\ f.name = g.g1
               /\ f.lib_version # g.g2

\* C2: an ingest of a payload that lacks one of the required keys fails
\* with the validation error and adds no telemetry row.
C2_MissingKeyRejected ==
    [][(lastOp'.op = "ingest" /\ ~(Keys \subseteq DOMAIN lastOp'.args.stats))
        => /\ lastOp'.raised = Some("AttributeError")
           /\ stats_entries' = stats_entries]_vars

\* A rejected payload without "analog", the last key tested, on a store
\* that already holds telemetry.
C2_Witness ==
    /\ lastOp.op = "ingest"
    /\ "analog" \notin DOMAIN lastOp.args.stats
    /\ lastOp.raised = Some("AttributeError")
    /\ stats_entries # {}

\* C3: a successful ingest for an id without a node record creates exactly
\* one node record, named by the decimal string of the id, whose last_ip
\* is the source address when one is given and unset otherwise.
C3_AutoCreatesNode ==
    [][(/\ lastOp'.op = "ingest"
        /\ lastOp'.raised = None
        /\ ~\E n \in nodes : n.id = lastOp'.args.stats["id"])
        => nodes' = nodes \cup
               {[id |-> lastOp'.args.stats["id"],
                 name |-> Some(str(lastOp'.args.stats["id"])),
                 last_ip |-> lastOp'.args.ip]}]_vars

\* The scenario of the tests: 12345 ingested without an address and 23456
\* with one, each the only telemetry of its node.
C3_Witness ==
    /\ lastOp.op = "ingest"
    /\ lastOp.raised = None
    /\ nodes = {[id |-> 12345, name |-> Some("12345"), last_ip |-> None],
                [id |-> 23456, name |-> Some("23456"),
                 last_ip |-> Some("10.3.0.1")]}
    /\ Cardinality(stats_entries) = 2

\* C4: every ingest of a payload with all the keys persists its own row
\* under a surrogate key no other row has, so the telemetry table grows by
\* exactly one row per such ingest, whether or not another node's row
\* carries the same timestamp.
C4_OneRowPerIngest ==
    [][(lastOp'.op = "ingest" /\ Keys \subseteq DOMAIN lastOp'.args.stats)
        => /\ lastOp'.raised = None
           /\ stats_entries \subseteq stats_entries'
           /\ Cardinality(stats_entries') = Cardinality(stats_entries) + 1
           /\ \A r1, r2 \in stats_entries' :
                  r1.entry_id = r2.entry_id => r1 = r2
           /\ \E r \in stats_entries' \ stats_entries :
                  r.id = lastOp'.args.stats["id"]]_vars

\* Two stored rows of different nodes with the same timestamp, the second
\* sent as a string of another zone.
C4_Witness ==
    /\ lastOp.op = "ingest"
    /\ lastOp.raised = None
    /\ lastOp.args.stats["timestamp"].utcoffset = 60
    /\ \E r1, r2 \in stats_entries :
           /\ r1.id # r2.id
           /\ r1.timestamp = r2.timestamp
           /\ r1.entry_id # r2.entry_id

\* C5: addFirmwareArchive on the archive the call before it has stored
\* succeeds and leaves the firmware table, hence every name's version and
\* blob and the number of rows, as the first application left it.
C5_ArchiveIdempotent ==
    [][(/\ lastOp'.op = "add_firmware"
        /\ lastOp'.again
        /\ lastOp.raised = None)
        => /\ lastOp'.raised = None
           /\ firmware_files' = firmware_files]_vars

\* A second application of an archive of two builds of the same name.
C5_Witness ==
    /\ lastOp.op = "add_firmware"
    /\ lastOp.again
    /\ lastOp.raised = None
    /\ Len(lastOp.args.archive) = 2
    /\ lastOp.args.archive[1].fname # lastOp.args.archive[2].fname
    /\ Cardinality(firmware_files) = 1

\* C6: set_node_name with a name of 256 characters or more fails with the
\* validation error and leaves the node table as it was.
C6_LongNameRejected ==
    [][(lastOp'.op = "set_node_name" /\ Len(lastOp'.args.name) >= 256)
        => /\ lastOp'.raised = Some("ValueError")
           /\ nodes' = nodes]_vars

\* A rejected name of exactly 256 characters for a node that has a name
\* and an address, on a store where the other node does not exist.
C6_Witness ==
    /\ lastOp.op = "set_node_name"
    /\ Len(lastOp.args.name) = 256
    /\ lastOp.raised = Some("ValueError")
    /\ lastOp.args.nodeId = 23456
    /\ nodes = {[id |-> 23456, name |-> Some("Test Node 1"),
                 last_ip |-> Some("10.3.0.1")]}

\* C7: GET /fw/<name> with a version tag answers not-found when no firmware
\* is stored under the name, not-modified without a blob when the tag is
\* the stored {name}-{lib_version}-{hash}, and otherwise the stored blob
\* under the download name {version}.bin; it changes no table.
C7_Negotiation ==
    [][(lastOp'.op = "firmware" /\ lastOp'.args.x_fwver # None)
        => LET rows == Stored(firmware_files, lastOp'.args.fwname)
               tag == lastOp'.args.x_fwver[1]
               r == lastOp'.ret[1]
           IN  /\ nodes' = nodes
               /\ firmware_files' = firmware_files
               /\ stats_entries' = stats_entries
               /\ rows = {} => r.status = 404 /\ r.download_name = None
               /\ \A f \in rows :
                      LET stored == Tag(f.name, f.lib_version, f.hash)
                      IN  /\ tag = stored
                              => /\ r.status = 304
                                 /\ r.body # Some(f.firmware)
                                 /\ r.download_name = None
                          /\ tag # stored
                              => /\ r.status = 200
                                 /\ r.body = Some(f.firmware)
                                 /\ r.download_name =
                                        Some(stored \o <<".", "b", "i", "n">>)]_vars

\* The monitor holds the tag of the stored build of fw1 and is told so.
C7_Witness ==
    /\ lastOp.op = "firmware"
    /\ lastOp.args.x_fwver = Some(Tag(Fw1, V123, Hash1))
    /\ lastOp.ret[1].status = 304
    /\ \E f \in firmware_files : f.name = Fw1 /\ f.lib_version = V123

\* The groups of the file name of an archive member.
Parsed(e) ==
    FW_FILE_RE(e.fname)[1]

\* The firmware names the members of an archive carry.
ArchiveNames(archive) ==
    {Parsed(archive[i]).g1 : i \in DOMAIN archive}

\* The store after the step.
DBAfter ==
    [nodes |-> nodes', firmware_files |-> firmware_files',
     stats_entries |-> stats_entries']

\* C8 as claimed: after a successful add_firmware of an archive whose file
\* names all match, get_firmware of every entry's name gives the version
\* and the hash of that entry's file name and that entry's bytes, and
\* get_firmware_names holds every such name (on an empty store, those
\* names and no other).
C8_EveryEntryStored ==
    [][(/\ lastOp'.op = "add_firmware"
        /\ lastOp'.raised = None
        /\ ~HasBadName(lastOp'.args.archive))
        => LET archive == lastOp'.args.archive
               names == get_firmware_names(DBAfter).ret[1]
           IN  /\ \A i \in DOMAIN archive :
                      LET g == Parsed(archive[i])
                          got == get_firmware(DBAfter, g.g1).ret
                      IN  /\ got # None
                          /\ got[1].lib_version = g.g2
                          /\ got[1].hash = g.g4
                          /\ got[1].firmware = archive[i].data
               /\ ArchiveNames(archive) \subseteq names
               /\ firmware_files = {} => names = ArchiveNames(archive)]_vars

\* C8 as amended: after such a call get_firmware of every entry's name
\* gives the version and the hash of the file name of the last entry of
\* that name; when the name is that of one entry only, the blob is the
\* entry's bytes, unless the store held the name under the same version
\* before the call, and then the blob is the one it held.  The names are
\* listed as claimed.
C8_LastEntryStored ==
    [][(/\ lastOp'.op = "add_firmware"
        /\ lastOp'.raised = None
        /\ ~HasBadName(lastOp'.args.archive))
        => LET archive == lastOp'.args.archive
               names == get_firmware_names(DBAfter).ret[1]
           IN  /\ \A i \in DOMAIN archive :
                      LET g == Parsed(archive[i])
                          same == {j \in DOMAIN archive :
                                       Parsed(archive[j]).g1 = g.g1}
                          last == CHOOSE j \in same : \A k \in same : k <= j
                          gl == Parsed(archive[last])
                          held == {f \in Stored(firmware_files, g.g1) :
                                       /\ f.lib_version = g.g2
                                       /\ f.hash = g.g4}
                          got == get_firmware(DBAfter, g.g1).ret
                      IN  /\ got # None
                          /\ got[1].lib_version = gl.g2
                          /\ got[1].hash = gl.g4
                          /\ (same = {i} /\ held = {})
                                 => got[1].firmware = archive[i].data
                          /\ (same = {i} /\ held # {})
                                 => \A f \in held : got[1].firmware = f.firmware
               /\ ArchiveNames(archive) \subseteq names
               /\ firmware_files = {} => names = ArchiveNames(archive)]_vars

\* An older build of fw1 with other bytes has replaced the stored one, and
\* fw2, which the archive does not carry, is still stored.
C8_Witness ==
    /\ lastOp.op = "add_firmware"
    /\ lastOp.raised = None
    /\ lastOp.args.archive =
           <<[fname |-> FileName(Fw1, V122, Hash1), data |-> "110"]>>
    /\ [name |-> Fw1, lib_version |-> V122, hash |-> Hash1,
        firmware |-> "110"] \in firmware_files
    /\ Cardinality(firmware_files) = 2

\* C9: the firmware table never holds two rows of one name, and no
\* add_firmware fails on a duplicate: an archive with several entries of
\* one name, or with another version of a stored name, updates the row.
C9_OneRowPerName ==
    /\ \A f1, f2 \in firmware_files : f1.name = f2.name => f1 = f2
    /\ lastOp.op = "add_firmware" => lastOp.raised # Some("IntegrityError")

\* An archive of two builds of fw1 has been stored over the build the
\* store held: one row, the build of the second entry.
C9_Witness ==
    /\ lastOp.op = "add_firmware"
    /\ lastOp.raised = None
    /\ lastOp.args.archive =
           <<[fname |-> FileName(Fw1, V123, Hash1), data |-> "999"],
             [fname |-> FileName(Fw1, V122, Hash1), data |-> "110"]>>
    /\ Stored(firmware_files, Fw1) =
           {[name |-> Fw1, lib_version |-> V122, hash |-> Hash1,
             firmware |-> "110"]}

\* C10: set_node_name with a name shorter than 256 characters returns the
\* node as stored after the call, which is a new node of that name without
\* an address when the id had none, and the stored node under the new name
\* with its address untouched otherwise; no other node, no telemetry row
\* and no firmware row changes.
C10_Rename ==
    [][(lastOp'.op = "set_node_name" /\ Len(lastOp'.args.name) < 256)
        => LET id == lastOp'.args.nodeId
               old == {n \in nodes : n.id = id}
               new == [id |-> id,
                       name |-> Some(lastOp'.args.name),
                       last_ip |-> IF old = {} THEN None
                                   ELSE (CHOOSE n \in old : TRUE).last_ip]
           IN  /\ lastOp'.raised = None
               /\ lastOp'.ret = Some(new)
               /\ nodes' = (nodes \ old) \cup {new}
               /\ stats_entries' = stats_entries
               /\ firmware_files' = firmware_files]_vars

\* A node that ingest created with an address now carries the longest name
\* allowed and the address, next to a node that rename created, on a store
\* that holds telemetry and firmware.
C10_Witness ==
    /\ lastOp.op = "set_node_name"
    /\ lastOp.raised = None
    /\ lastOp.args.nodeId = 23456
    /\ Len(lastOp.args.name) = 255
    /\ lastOp.ret = Some([id |-> 23456, name |-> Some(lastOp.args.name),
                          last_ip |-> Some("10.3.0.1")])
    /\ [id |-> 12345, name |-> Some("Test Node 1"), last_ip |-> None]
           \in nodes
    /\ stats_entries # {}
    /\ firmware_files # {}


\* The telemetry rows of the table t sent by node id.
RowsOf(t, id) ==
    {r \in t : r.id = id}

\* Thread p's ingest ended after finding no node under the id of its
\* payload, and the store did not fail under it.
RacedOn(p, id) ==
    /\ requests[p].pc = "done"
    /\ requests[p].id = Some(id)
    /\ requests[p].obj = None
    /\ requests[p].raised # Some("OperationalError")

\* C11: two ingests for one unseen node id that both found the node absent
\* both complete without an error: the insert the uniqueness constraint
\* rejects is taken as "already exists", so that afterwards one node row of
\* that id exists and both telemetry rows are stored.
C11_RaceCompletes ==
    \A id \in NodeIds :
        (RacedOn(1, id) /\ RacedOn(2, id))
            => /\ requests[1].raised = None
               /\ requests[2].raised = None
               /\ Cardinality({n \in nodes : n.id = id}) = 1
               /\ Cardinality(RowsOf(stats_entries, id)) >= 2


\* C12: ingest is atomic over its two writes.  The committed store, which
\* is what every other operation and every concurrent read sees, changes
\* only in the step that commits an ingest, and that step makes the node
\* write and the telemetry row of the call visible together; a call that
\* ends with an exception, the node statement sent or not, leaves the
\* committed store as it was.
C12_Atomic ==
    [][/\ (nodes' # nodes \/ stats_entries' # stats_entries)
            => \E p \in Threads :
                   /\ requests[p].pc = "flushing"
                   /\ requests[p].work = <<>>
                   /\ requests'[p].pc = "done"
                   /\ requests'[p].raised = None
                   /\ nodes' = requests[p].tx[1].nodes
                   /\ stats_entries' = requests[p].tx[1].stats_entries
                   /\ \E n \in nodes' : n.id = requests[p].id[1]
                   /\ \E r \in stats_entries' \ stats_entries :
                          r.id = requests[p].id[1]
       /\ \A p \in Threads :
              (/\ requests'[p] # requests[p]
               /\ requests'[p].pc = "done"
               /\ requests'[p].raised # None)
                  => (nodes' = nodes /\ stats_entries' = stats_entries)]_vars

\* An ingest for an unseen node failed between its two writes, the INSERT
\* of the node sent and the INSERT of the telemetry row not: the committed
\* store holds neither the node nor a row of it.
C12_Witness ==
    \E p \in Threads :
        /\ requests[p].pc = "done"
        /\ requests[p].raised = Some("OperationalError")
        /\ requests[p].obj = None
        /\ Len(requests[p].work) = 1
        /\ requests[p].work[1].table = "stats_entries"
        /\ \A n \in nodes : n.id # requests[p].id[1]
        /\ RowsOf(stats_entries, requests[p].id[1]) = {}


\* C13: every stored firmware hash is lower-case: no stored hash holds an
\* upper-case hexadecimal letter, whatever the case of the file name that
\* brought it.
C13_HashLowerCase ==
    \A f \in firmware_files :
        \A i \in DOMAIN f.hash : f.hash[i] \notin {"A", "B", "C", "D", "E", "F"}


\* The store holds stats_entries under the layout with entry_id.
Migrated ==
    /\ "stats_entries" \in DOMAIN schema
    /\ ~ProbeFails(schema)

\* C14: update_schema is a no-op on a store already migrated: called when
\* stats_entries has the entry_id column, it raises nothing and leaves the
\* layout of every table and every stored row, entry_id included, as they
\* were; so does the second of two calls in a row, whatever store the first
\* one found.
C14_MigratedNoOp ==
    [][(/\ lastOp'.op = "update_schema"
        /\ Migrated \/ lastOp'.again)
        => /\ lastOp'.raised = None
           /\ schema' = schema
           /\ stats_entries' = stats_entries
           /\ nodes' = nodes
           /\ firmware_files' = firmware_files]_vars

\* update_schema has run twice in a row on a store that holds telemetry
\* rows under the layout with entry_id, a node and a firmware.
C14_Witness ==
    /\ lastOp.op = "update_schema"
    /\ lastOp.again
    /\ phase = "schema_ready"
    /\ Migrated
    /\ \E r \in stats_entries : r.entry_id = 2
    /\ nodes # {}
    /\ firmware_files # {}


\* The row of the table t that holds the values of the legacy row r in the
\* columns the two layouts share.
CopiesOf(t, r) ==
    {n \in t : \A c \in Range(LegacyColumns) : n[c] = r[c]}

\* C15: update_schema on a store whose stats_entries is keyed by timestamp
\* and has no entry_id preserves the data: afterwards the table has the
\* layout with entry_id, holds as many rows as before, each legacy row has
\* its copy with the same value in every column, no two rows share an
\* entry_id, the entry_ids follow the order of the legacy rows, and no
\* table stats_entries_new remains.
C15_MigrationPreserves ==
    [][(/\ lastOp'.op = "update_schema"
        /\ "stats_entries" \in DOMAIN schema
        /\ ProbeFails(schema))
        => /\ lastOp'.raised = None
           /\ schema'["stats_entries"] = StatsColumns
           /\ "stats_entries_new" \notin DOMAIN schema'
           /\ Cardinality(stats_entries') = Cardinality(stats_entries)
           /\ \A r \in stats_entries : CopiesOf(stats_entries', r) # {}
           /\ \A a, b \in stats_entries' : a.entry_id = b.entry_id => a = b
           /\ \A r1, r2 \in stats_entries :
                  r1.rowid < r2.rowid
                      => \A n1 \in CopiesOf(stats_entries', r1),
                            n2 \in CopiesOf(stats_entries', r2) :
                             n1.entry_id < n2.entry_id]_vars

\* A store of two legacy rows, the later timestamp inserted first, has been
\* migrated: the row inserted first has entry_id 1.
C15_Witness ==
    /\ lastOp.op = "update_schema"
    /\ ~lastOp.again
    /\ Migrated
    /\ \E a, b \in stats_entries :
           /\ a.entry_id = 1
           /\ b.entry_id = 2
           /\ a.timestamp.wall > b.timestamp.wall
           /\ a.id # b.id


\* The node stored under id in the table t.
NodeOf(t, id) ==
    CHOOSE n \in t : n.id = id

\* C16: a successful ingest for a node already registered changes at most
\* the last_ip of that node: with an address the last_ip becomes the
\* address, without one it keeps its value; the name of the node (one set
\* by an earlier rename included) and every other node are left as they
\* were.
C16_IngestFrame ==
    [][(/\ lastOp'.op = "ingest"
        /\ lastOp'.raised = None
        /\ \E n \in nodes : n.id = lastOp'.args.stats["id"])
        => LET n == NodeOf(nodes, lastOp'.args.stats["id"])
               ip == lastOp'.args.ip
           IN  nodes' = (nodes \ {n}) \cup
                   {[n EXCEPT !.last_ip = IF ip # None THEN ip ELSE @]}]_vars

\* An ingest without an address for a node that a rename has named and an
\* earlier ingest has given an address: both are still stored.
C16_Witness ==
    /\ lastOp.op = "ingest"
    /\ lastOp.raised = None
    /\ lastOp.args.ip = None
    /\ \E n \in nodes :
           /\ n.id = lastOp.args.stats["id"]
           /\ n.name = Some("Test Node 1")
           /\ n.last_ip = Some("10.3.0.1")


\* C17: a stored firmware row changes only through an add_firmware that
\* succeeds on an archive with an entry of the row's name whose version tag
\* differs from the stored one, and the name stays stored; in every other
\* step (an archive without the name, an archive that carries the stored
\* tag with other bytes, a failed call, a read) lib_version, hash and blob
\* of the row are as before.
C17_FirmwareFrame ==
    [][\A f \in firmware_files :
           /\ Stored(firmware_files', f.name) # {}
           /\ f \notin firmware_files'
                  => /\ lastOp'.op = "add_firmware"
                     /\ lastOp'.raised = None
                     /\ \E i \in DOMAIN lastOp'.args.archive :
                            LET g == Parsed(lastOp'.args.archive[i])
                            IN  /\ g.g1 = f.name
                                /\ Tag(g.g1, g.g2, g.g4) # version(f)]_vars

\* A successful add_firmware of the stored tag of fw1 with other bytes, the
\* archive without an entry of fw2: both rows hold what they held.
C17_Witness ==
    /\ lastOp.op = "add_firmware"
    /\ lastOp.raised = None
    /\ lastOp.args.archive =
           <<[fname |-> FileName(Fw1, V123, Hash1), data |-> "999"]>>
    /\ [name |-> Fw1, lib_version |-> V123, hash |-> Hash1,
        firmware |-> "111"] \in firmware_files
    /\ [name |-> Fw2, lib_version |-> V1, hash |-> Hash2,
        firmware |-> "222"] \in firmware_files


\* C18: telemetry is append-only and nodes are never deleted.  In every
\* step of the server (start-up with update_schema and the start-up fetch,
\* ingest, set_node_name, add_firmware, the reads, the end of the process)
\* each stored telemetry row stays stored with the same value in every
\* column, as the same row where the layout has entry_id, and each node id
\* registered stays registered.
C18_AppendOnly ==
    [][/\ \A r \in stats_entries : CopiesOf(stats_entries', r) # {}
       /\ Migrated => stats_entries \subseteq stats_entries'
       /\ Cardinality(stats_entries') >= Cardinality(stats_entries)
       /\ \A n \in nodes : \E m \in nodes' : m.id = n.id]_vars

\* A store that held a legacy row has been migrated, has taken a telemetry
\* row and a rename since, and the scheduled job has run: the legacy row,
\* the new row and the node are stored.
C18_Witness ==
    /\ phase = "serving"
    /\ lastOp.op = "add_firmware"
    /\ Migrated
    /\ \E a, b \in stats_entries :
           /\ a.entry_id = 1
           /\ a.timestamp.wall = 872
           /\ b.entry_id = 2
           /\ \E n \in nodes : n.id = b.id /\ n.name = Some("Test Node 1")


\* The minute of UTC a timestamp denotes.
Instant(ts) ==
    ts.wall - ts.utcoffset

\* C19: every stored telemetry timestamp is normalized to UTC, whether the
\* payload gave it as an ISO-8601 string or as a timezone-aware datetime of
\* another zone, and the stored instant is the supplied one: the row a
\* successful ingest adds has a timestamp of offset 0 that denotes the
\* instant of the payload's.
C19_StoredUTC ==
    [][(lastOp'.op = "ingest" /\ lastOp'.raised = None)
        => \A r \in stats_entries' \ stats_entries :
               /\ r.timestamp.utcoffset = 0
               /\ Instant(r.timestamp)
                      = Instant(lastOp'.args.stats["timestamp"])]_vars


\* C20: at most one archive run (the download followed by add_firmware) is
\* in flight at any time: the run of the start-up code is over before the
\* scheduler is started, and an interval that elapses while a run is still
\* active submits no second run and is counted as skipped.
C20_OneRunInFlight ==
    /\ [](/\ Len(sched.runs) <= 1
          /\ sched.started
                 => \A i \in DOMAIN sched.runs : sched.runs[i].by # "startup")
    /\ [][(sched'.ticks > sched.ticks /\ sched.runs # <<>>)
              => /\ sched'.runs = sched.runs
                 /\ sched'.skipped = sched.skipped + 1]_vars

\* An interval has elapsed while the run of the job, its archive already
\* downloaded, was still active, and was skipped: that run is the only one.
C20_Witness ==
    /\ sched.skipped >= 1
    /\ Len(sched.runs) = 1
    /\ sched.runs[1].by = "job"
    /\ sched.runs[1].archive # None
    /\ firmware_files # {}


\* The step is a call of ingest, set_node_name or add_firmware: it records
\* such a call or changes a table under the record of one.
StoreCall ==
    /\ lastOp'.op \in {"ingest", "set_node_name", "add_firmware"}
    /\ \/ lastOp'.op # lastOp.op
       \/ lastOp'.args # lastOp.args
       \/ lastOp'.again # lastOp.again
       \/ nodes' # nodes
       \/ firmware_files' # firmware_files
       \/ stats_entries' # stats_entries

\* C21: the schema migration never overlaps the use of the store.  Each
\* start of the server runs update_schema once, as the step that takes the
\* process from stopped to schema_ready, and that step leaves the layout
\* with entry_id; the requests are served only after a start-up that went
\* through it; and every ingest, set_node_name and add_firmware (the one of
\* the start-up fetch included) runs on the migrated layout, after
\* update_schema has returned, and leaves the layout alone.
C21_MigrationFirst ==
    /\ [](phase \in {"schema_ready", "serving"} => Migrated)
    /\ [][/\ (phase = "stopped" /\ phase' # "stopped")
               => /\ phase' = "schema_ready"
                  /\ lastOp'.op = "update_schema"
                  /\ lastOp'.raised = None
          /\ (phase # "serving" /\ phase' = "serving")
               => phase = "schema_ready"
          /\ StoreCall
               => /\ phase \in {"schema_ready", "serving"}
                  /\ Migrated
                  /\ schema' = schema]_vars

\* A server started on a store of one legacy row has migrated it and then
\* served an ingest: the legacy row has entry_id 1, the new row entry_id 2.
C21_Witness ==
    /\ phase = "serving"
    /\ lastOp.op = "ingest"
    /\ lastOp.raised = None
    /\ Cardinality(stats_entries) = 2
    /\ \E a, b \in stats_entries :
           /\ a.entry_id = 1
           /\ a.timestamp.wall = 871
           /\ b.entry_id = 2
           /\ b.id = lastOp.args.stats["id"]


\* C22: an ingest that fails validation leaves the node registry as it was:
\* a payload that lacks a required key raises the validation error before
\* the store is touched, so that its node id is not registered and the
\* last_ip of a node it names is not changed, an address supplied or not.
C22_RejectedLeavesNodes ==
    [][(lastOp'.op = "ingest" /\ ~(Keys \subseteq DOMAIN lastOp'.args.stats))
        => /\ lastOp'.raised = Some("AttributeError")
           /\ nodes' = nodes]_vars

\* A rejected payload that names a node and came with an address, on a
\* store that holds that node under another address and does not hold the
\* other node id.
C22_Witness ==
    /\ lastOp.op = "ingest"
    /\ lastOp.raised = Some("AttributeError")
    /\ lastOp.args.ip = Some("127.0.0.1")
    /\ "id" \in DOMAIN lastOp.args.stats
    /\ "analog" \notin DOMAIN lastOp.args.stats
    /\ nodes = {[id |-> lastOp.args.stats["id"], name |-> Some("Test Node 1"),
                 last_ip |-> Some("10.3.0.1")]}

====
